---- MODULE Spec2Model ----
(***************************************************************************)
(* A model of the query pipeline of src/app.py (NSS Document Search):      *)
(* understand_query, build_filters, get_latest_year_for_country, retrieve, *)
(* format_context, generate_answer, query_documents and get_stats.         *)
(*                                                                         *)
(* Both endpoints are `async def` handlers that never await, so the event  *)
(* loop runs one handler to its end before it starts the next: the model   *)
(* serves one request at a time, split at the external calls it makes.     *)
(***************************************************************************)
EXTENDS Integers, Sequences, FiniteSets, TLC

VARIABLES
    store,          \* the chunks of the collection (ids into Corpus), fixed at startup
    store0,         \* the collection as it was at startup
    served,         \* whether a request has ended since startup
    pc,             \* where the request in progress stands
    endpoint,       \* the endpoint of the request in progress
    completion,     \* the text the intent-parsing model returned
    query,          \* request.query, a sequence of characters
    parsed,         \* what understand_query returned
    filters,        \* what build_filters returned
    search_query,   \* the string handed to retrieve
    where_filter,   \* the predicate retrieve passed to collection.query
    results,        \* what collection.query returned
    context,        \* what format_context returned
    answer,         \* what generate_answer returned
    response,       \* the HTTP response of the request
    calls,          \* the steps the request has run, in order, with their arguments
    all_meta        \* what get_stats fetched from the collection

vars == <<store, store0, pc, endpoint, completion, query, parsed, filters,
          search_query, where_filter, results, context, answer, response, calls,
          all_meta, served>>

(***************************************************************************)
(* Bounds of the model.                                                    *)
(***************************************************************************)
MaxChunks == 2

\* the pages of the long document of the corpus
AnnexPages == 7

\* twice the results asked of the nearest-neighbour query
TOP_K_doubled == 2 * 10

\* line 17: the results asked of the nearest-neighbour query
TOP_K == 10

\* lines 19-24: the countries the intent prompt lists
AVAILABLE_COUNTRIES ==
    {"United States", "United Kingdom", "China", "Russia", "Japan", "Spain",
     "Germany", "France", "Australia", "Canada", "India", "Taiwan", "Netherlands",
     "Sweden", "Jamaica", "South Korea", "Israel", "Singapore", "Brazil", "Mexico",
     "Poland", "Italy"}

(***************************************************************************)
(* Python values.  A JSON value keeps its type: null, bool, int and str    *)
(* are tagged records, a dict is a function from its keys, and a decoded   *)
(* document that is no dict keeps only its kind.                           *)
(***************************************************************************)
JNull == [t |-> "null"]
JBool(b) == [t |-> "bool", v |-> b]
JInt(n) == [t |-> "int", v |-> n]
\* a str drawn from a fixed vocabulary (a country name)
JStr(s) == [t |-> "str", v |-> s]
\* a free-text str, as its sequence of characters
JText(s) == [t |-> "text", v |-> s]
JList(s) == [t |-> "list", v |-> s]

EmptyDict == [k \in {} |-> JNull]

Put(d, k, v) == [x \in (DOMAIN d) \cup {k} |-> IF x = k THEN v ELSE d[x]]

\* dict.get(k): None when the key is missing
Get(d, k) == IF k \in DOMAIN d THEN d[k] ELSE JNull

\* dict.get(k, default)
GetDefault(d, k, default) == IF k \in DOMAIN d THEN d[k] ELSE default

\* Python truthiness of a scalar: None, False, 0 and "" are falsy
Truthy(v) ==
    CASE v.t = "null" -> FALSE
      [] v.t = "bool" -> v.v
      [] v.t = "int"  -> v.v # 0
      [] v.t = "str"  -> v.v # ""
      [] v.t = "text" -> v.v # <<>>

\* Python truthiness of a dict
TruthyDict(d) == DOMAIN d # {}

(***************************************************************************)
(* The collection.  Corpus lists the chunks a collection may hold: the     *)
(* chunks of Sample, one of each kind, and the AnnexPages pages of one     *)
(* long document.  A store is a set of at most MaxChunks chunks of Sample, *)
(* or the whole corpus; collection.get returns it in the order of the ids. *)
(* year is absent from the metadata of a chunk that carries none.          *)
(***************************************************************************)
Sample ==
    << [text |-> "us-a", meta |-> [country |-> "United States", year |-> 2017,
                                   doc_name |-> "NSS-US-2017", page |-> 3]],
       [text |-> "us-b", meta |-> [country |-> "United States", year |-> 2022,
                                   doc_name |-> "NSS-US-2022", page |-> 7]],
       [text |-> "us-c", meta |-> [country |-> "United States", year |-> 0,
                                   doc_name |-> "NSS-US-undated", page |-> 1]],
       [text |-> "us-d", meta |-> [country |-> "United States",
                                   doc_name |-> "NSS-US-draft", page |-> 2]],
       [text |-> "jp-a", meta |-> [country |-> "Japan", year |-> 2013,
                                   doc_name |-> "NSS-JP-2013", page |-> 5]],
       [text |-> "jp-b", meta |-> [country |-> "Japan", year |-> 2022,
                                   doc_name |-> "NSS-JP-2022", page |-> 9]],
       [text |-> "jp-c", meta |-> [country |-> "Japan",
                                   doc_name |-> "NSS-JP-draft", page |-> 4]] >>

Annex ==
    [p \in 1..AnnexPages |->
        [text |-> "us-x", meta |-> [country |-> "United States", year |-> 2024,
                                    doc_name |-> "NSS-US-2024", page |-> p]]]

Corpus == Sample \o Annex

ChunkIds == DOMAIN Sample

Stores == {s \in SUBSET ChunkIds : Cardinality(s) <= MaxChunks}

\* the ids of a set, in increasing order
RECURSIVE InOrder(_)
InOrder(s) ==
    IF s = {} THEN <<>>
    ELSE LET m == CHOOSE x \in s : \A y \in s : x <= y
         IN  <<m>> \o InOrder(s \ {m})

\* meta.get("year") of a chunk's metadata, as a Python value
MetaYear(meta) == IF "year" \in DOMAIN meta THEN JInt(meta.year) ELSE JNull

RECURSIVE MaxOf(_)
MaxOf(s) ==
    IF Len(s) = 1 THEN s[1]
    ELSE LET r == MaxOf(Tail(s)) IN IF s[1] >= r THEN s[1] ELSE r

RECURSIVE MinOf(_)
MinOf(s) ==
    IF Len(s) = 1 THEN s[1]
    ELSE LET r == MinOf(Tail(s)) IN IF s[1] <= r THEN s[1] ELSE r

\* collection.get without its where: the metadata of every chunk
GetByCountry_all(st, country) ==
    [i \in 1..Cardinality(st) |-> Corpus[InOrder(st)[i]].meta]

\* collection.get(where={"country": country}, include=["metadatas"])
GetByCountry(st, country) ==
    LET all == [i \in 1..Cardinality(st) |-> Corpus[InOrder(st)[i]].meta]
        hit(m) == country.t = "str" /\ m.country = country.v
    IN  SelectSeq(all, hit)

\* get_latest_year_for_country taking the first year found for the maximum
get_latest_year_first(st, country) ==
    LET metadatas == GetByCountry(st, country)
        has(m) == Truthy(MetaYear(m))
        years == SelectSeq(metadatas, has)
    IN  IF metadatas # <<>> /\ years # <<>> THEN JInt(years[1].year) ELSE JNull

\* get_latest_year_for_country: None (JNull) or the maximum truthy year
get_latest_year_for_country(st, country) ==
    LET metadatas == GetByCountry(st, country)
        has(m) == Truthy(MetaYear(m))
        years == SelectSeq(metadatas, has)
    IN  IF metadatas # <<>> /\ years # <<>>
        THEN JInt(MaxOf([i \in 1..Len(years) |-> years[i].year]))
        ELSE JNull

(***************************************************************************)
(* The intent-parsing model.  Its completion is any text: one that is no   *)
(* JSON, or a JSON document of any shape.  A text is written as what       *)
(* json.loads makes of it.                                                 *)
(***************************************************************************)
Absent == [t |-> "absent"]

CountryOpts == {Absent, JNull, JStr("United States"), JStr("Narnia")}
YearOpts == {Absent, JInt(0), JInt(2022)}
YearMinOpts == {Absent, JInt(2010), JInt(2023)}
YearMaxOpts == {Absent, JInt(0), JInt(2020)}
LatestOpts == {Absent, JBool(TRUE)}
SearchOpts == {Absent, JNull, JText(<<"t">>)}

\* the dict with the given fields, a field left out when it is Absent
DictOf(c, y, lo, hi, wl, sq) ==
    LET f == [country |-> c, year |-> y, year_min |-> lo, year_max |-> hi,
              wants_latest |-> wl, search_query |-> sq]
    IN  [k \in {x \in DOMAIN f : f[x] # Absent} |-> f[k]]

IntentObjects ==
    {DictOf(c, y, lo, hi, wl, sq) :
        c \in CountryOpts, y \in YearOpts, lo \in YearMinOpts, hi \in YearMaxOpts,
        wl \in LatestOpts, sq \in SearchOpts}

PyDict(d) == [kind |-> "dict", d |-> d]

ModelTexts ==
    {[valid |-> FALSE]}
    \cup {[valid |-> TRUE, doc |-> [kind |-> k]] : k \in {"list", "str", "int", "null"}}
    \cup {[valid |-> TRUE, doc |-> PyDict(o)] : o \in IntentObjects}

\* understand_query falling back on the question with its whitespace removed
understand_query_stripped(q, text) ==
    IF text.valid THEN text.doc
    ELSE PyDict([search_query |-> JText(SelectSeq(q, LAMBDA ch : ch \notin {" ", "\t"}))])

\* understand_query, given the completion: json.loads, or the fallback on
\* JSONDecodeError
understand_query(q, text) ==
    IF text.valid THEN text.doc ELSE PyDict([search_query |-> JText(q)])

(***************************************************************************)
(* build_filters.  parsed.get raises AttributeError on a value that is no  *)
(* dict.                                                                   *)
(***************************************************************************)
NeedsLatest(p) ==
    /\ p.kind = "dict"
    /\ Truthy(Get(p.d, "country"))
    /\ Truthy(Get(p.d, "wants_latest"))

\* lines 143-149 with a year of 0 standing in for a lookup that found none
CountryPart_zero_year(d, st) ==
    IF Truthy(Get(d, "country"))
    THEN LET f1 == Put(EmptyDict, "country", d["country"])
             latest_year == get_latest_year_for_country(st, d["country"])
         IN  IF Truthy(Get(d, "wants_latest"))
             THEN IF Truthy(latest_year)
                  THEN Put(Put(f1, "year_min", latest_year), "year_max", latest_year)
                  ELSE Put(Put(f1, "year_min", JInt(0)), "year_max", JInt(0))
             ELSE f1
    ELSE EmptyDict

\* lines 143-149 with a country outside the list taken for no country
CountryPart_validated(d, st) ==
    IF Truthy(Get(d, "country")) /\ d["country"].v \in AVAILABLE_COUNTRIES
    THEN LET f1 == Put(EmptyDict, "country", d["country"])
             latest_year == get_latest_year_for_country(st, d["country"])
         IN  IF Truthy(Get(d, "wants_latest")) /\ Truthy(latest_year)
             THEN Put(Put(f1, "year_min", latest_year), "year_max", latest_year)
             ELSE f1
    ELSE EmptyDict

\* lines 143-149
CountryPart(d, st) ==
    IF Truthy(Get(d, "country"))
    THEN LET f1 == Put(EmptyDict, "country", d["country"])
             latest_year == get_latest_year_for_country(st, d["country"])
         IN  IF Truthy(Get(d, "wants_latest")) /\ Truthy(latest_year)
             THEN Put(Put(f1, "year_min", latest_year), "year_max", latest_year)
             ELSE f1
    ELSE EmptyDict

\* lines 151-158
YearPart(d, f) ==
    IF Truthy(Get(d, "year"))
    THEN Put(Put(f, "year_min", d["year"]), "year_max", d["year"])
    ELSE IF Truthy(Get(d, "year_min")) \/ Truthy(Get(d, "year_max"))
    THEN LET f2 == IF Truthy(Get(d, "year_min"))
                   THEN Put(f, "year_min", d["year_min"]) ELSE f
         IN  IF Truthy(Get(d, "year_max"))
             THEN Put(f2, "year_max", d["year_max"]) ELSE f2
    ELSE f

build_filters(p, st) ==
    IF p.kind # "dict" THEN [raised |-> TRUE]
    ELSE [raised |-> FALSE, value |-> YearPart(p.d, CountryPart(p.d, st))]

(***************************************************************************)
(* retrieve: the predicate, and the collection's nearest-neighbour query.  *)
(***************************************************************************)
\* Conditions with the upper bound written as a second lower bound
Conditions_gte_twice(f) ==
    (IF "country" \in DOMAIN f
        THEN <<[op |-> "$eq", key |-> "country", value |-> f["country"]]>> ELSE <<>>)
    \o (IF "year_min" \in DOMAIN f
        THEN <<[op |-> "$gte", key |-> "year", value |-> f["year_min"]]>> ELSE <<>>)
    \o (IF "year_max" \in DOMAIN f
        THEN <<[op |-> "$gte", key |-> "year", value |-> f["year_max"]]>> ELSE <<>>)

Conditions(f) ==
    (IF "country" \in DOMAIN f
        THEN <<[op |-> "$eq", key |-> "country", value |-> f["country"]]>> ELSE <<>>)
    \o (IF "year_min" \in DOMAIN f
        THEN <<[op |-> "$gte", key |-> "year", value |-> f["year_min"]]>> ELSE <<>>)
    \o (IF "year_max" \in DOMAIN f
        THEN <<[op |-> "$lte", key |-> "year", value |-> f["year_max"]]>> ELSE <<>>)

\* WhereOf wrapping any number of conditions other than one in an $and
WhereOf_always_and(farg) ==
    LET conditions == IF farg = JNull THEN <<>> ELSE Conditions(farg)
    IN  IF Len(conditions) = 1 THEN conditions[1]
        ELSE [op |-> "$and", conds |-> conditions]

\* WhereOf keeping the first of several conditions only
WhereOf_first_only(farg) ==
    IF farg = JNull \/ ~TruthyDict(farg) THEN JNull
    ELSE LET conditions == Conditions(farg)
         IN  IF Len(conditions) >= 1 THEN conditions[1] ELSE JNull

\* lines 165-178; farg is the filters argument, a dict or None
WhereOf(farg) ==
    IF farg = JNull \/ ~TruthyDict(farg) THEN JNull
    ELSE LET conditions == Conditions(farg)
         IN  IF Len(conditions) = 1 THEN conditions[1]
             ELSE IF Len(conditions) > 1 THEN [op |-> "$and", conds |-> conditions]
             ELSE JNull

\* the collection's reading of one condition on a chunk's metadata
MatchesCond(meta, c) ==
    CASE c.op = "$eq"  -> c.value.t = "str" /\ meta[c.key] = c.value.v
      [] c.op = "$gte" -> c.key \in DOMAIN meta /\ meta[c.key] >= c.value.v
      [] c.op = "$lte" -> c.key \in DOMAIN meta /\ meta[c.key] <= c.value.v

Matches(meta, w) ==
    IF w = JNull THEN TRUE
    ELSE IF w.op = "$and" THEN \A i \in DOMAIN w.conds : MatchesCond(meta, w.conds[i])
    ELSE MatchesCond(meta, w)

Matching(st, w) == {i \in st : Matches(Corpus[i].meta, w)}

Rotate(r, k) == [i \in 1..Len(r) |-> r[((i + k - 1) % Len(r)) + 1]]

Reverse(r) == [i \in 1..Len(r) |-> r[Len(r) + 1 - i]]

\* the orders the service may rank the chunks of s in: the rotations of the id
\* order and of its reverse, which are all the orders of up to three chunks
Rankings(s) ==
    IF s = {} THEN {<<>>}
    ELSE LET r == InOrder(s)
         IN  {Rotate(r, k) : k \in 0..(Len(r) - 1)}
                \cup {Rotate(Reverse(r), k) : k \in 0..(Len(r) - 1)}

Min2(a, b) == IF a <= b THEN a ELSE b

\* collection.query(query_embeddings, n_results, where): the n_results nearest
\* matching chunks; how the embedding ranks them is the service's own matter
QueryResults(st, w, n_results) ==
    {[documents |-> [i \in 1..Min2(n_results, Len(r)) |-> Corpus[r[i]].text],
      metadatas |-> [i \in 1..Min2(n_results, Len(r)) |-> Corpus[r[i]].meta]] :
        r \in Rankings(Matching(st, w))}

(***************************************************************************)
(* format_context and the sources of the response.  meta['year'] raises    *)
(* KeyError on a chunk without a year.                                     *)
(***************************************************************************)
HasAll(meta) == {"country", "year", "doc_name", "page"} \subseteq DOMAIN meta

Zipped(res) == Min2(Len(res.documents), Len(res.metadatas))

\* format_context numbering the blocks from the last chunk to the first
format_context_reversed(res) ==
    IF \E i \in 1..Zipped(res) : ~HasAll(res.metadatas[i]) THEN [raised |-> TRUE]
    ELSE [raised |-> FALSE,
          value |-> [i \in 1..Zipped(res) |->
                        [rank |-> i,
                         country |-> res.metadatas[Zipped(res) + 1 - i].country,
                         year |-> res.metadatas[Zipped(res) + 1 - i].year,
                         doc_name |-> res.metadatas[Zipped(res) + 1 - i].doc_name,
                         page |-> res.metadatas[Zipped(res) + 1 - i].page,
                         doc |-> res.documents[Zipped(res) + 1 - i]]]]

format_context(res) ==
    IF \E i \in 1..Zipped(res) : ~HasAll(res.metadatas[i]) THEN [raised |-> TRUE]
    ELSE [raised |-> FALSE,
          value |-> [i \in 1..Zipped(res) |->
                        [rank |-> i,
                         country |-> res.metadatas[i].country,
                         year |-> res.metadatas[i].year,
                         doc_name |-> res.metadatas[i].doc_name,
                         page |-> res.metadatas[i].page,
                         doc |-> res.documents[i]]]]

\* lines 247-255
SourcesOf(res) ==
    IF \E i \in DOMAIN res.metadatas : ~HasAll(res.metadatas[i]) THEN [raised |-> TRUE]
    ELSE [raised |-> FALSE,
          value |-> [i \in DOMAIN res.metadatas |->
                        [country |-> res.metadatas[i].country,
                         year |-> res.metadatas[i].year,
                         doc_name |-> res.metadatas[i].doc_name,
                         page |-> res.metadatas[i].page]]]

(***************************************************************************)
(* get_stats: the aggregation of lines 268-286 over the fetched metadata.  *)
(***************************************************************************)
\* the place of a country name in Python's order of strings
CountryRank(c) ==
    CASE c = "Japan" -> 1
      [] c = "United States" -> 2
      [] c = "Unknown" -> 3

\* sorted(countries.keys())
RECURSIVE SortedNames(_)
SortedNames(s) ==
    IF s = {} THEN <<>>
    ELSE LET m == CHOOSE x \in s : \A y \in s : CountryRank(x) <= CountryRank(y)
         IN  <<m>> \o SortedNames(s \ {m})

\* get_stats taking the largest year for both ends of year_range
Aggregate_max_only(metas, total) ==
    LET countries == {IF "country" \in DOMAIN metas[i] THEN metas[i].country
                      ELSE "Unknown" : i \in DOMAIN metas}
        years == {metas[i].year : i \in {j \in DOMAIN metas : Truthy(MetaYear(metas[j]))}}
        ys == InOrder(years)
    IN  [total_chunks |-> total,
         countries |-> Cardinality(countries),
         country_list |-> SortedNames(countries),
         year_range |-> IF years # {} THEN JList(<<MaxOf(ys), MaxOf(ys)>>) ELSE JNull]

\* lines 268-286: the body get_stats returns
Aggregate(metas, total) ==
    LET countries == {IF "country" \in DOMAIN metas[i] THEN metas[i].country
                      ELSE "Unknown" : i \in DOMAIN metas}
        years == {metas[i].year : i \in {j \in DOMAIN metas : Truthy(MetaYear(metas[j]))}}
        ys == InOrder(years)
    IN  [total_chunks |-> total,
         countries |-> Cardinality(countries),
         country_list |-> SortedNames(countries),
         year_range |-> IF years # {} THEN JList(<<MinOf(ys), MaxOf(ys)>>) ELSE JNull]

(***************************************************************************)
(* The requests.                                                           *)
(***************************************************************************)
Whitespace == {" ", "\t"}

RECURSIVE LStrip(_)
LStrip(s) == IF s # <<>> /\ s[1] \in Whitespace THEN LStrip(Tail(s)) ELSE s

RECURSIVE RStrip(_)
RStrip(s) ==
    IF s # <<>> /\ s[Len(s)] \in Whitespace THEN RStrip(SubSeq(s, 1, Len(s) - 1)) ELSE s

\* strip() left out
Strip_none(s) == s

\* str.strip()
Strip(s) == RStrip(LStrip(s))

Queries == {<<>>, <<" ">>, <<"\t", " ">>, <<"w">>, <<" ", "w", " ">>}

Answers == {"answer"}

Advisory ==
    "No relevant documents found for your query. Try broadening your search or checking the country/year filters."

NoResponse == [status |-> 0]
\* the 500 of an unhandled exception, with the exception that ended the handler
ServerError(exc) == [status |-> 500, error |-> exc]

\* the state once startup has run over a collection that is one of S
Started(S) ==
    /\ store \in S
    /\ store0 = store
    /\ served = FALSE
    /\ pc = "idle"
    /\ endpoint = ""
    /\ completion = JNull
    /\ query = <<>>
    /\ parsed = JNull
    /\ filters = JNull
    /\ search_query = JNull
    /\ where_filter = JNull
    /\ results = JNull
    /\ context = JNull
    /\ answer = JNull
    /\ response = NoResponse
    /\ calls = <<>>
    /\ all_meta = JNull

Init == Started(Stores)

\* startup over the whole corpus, a collection of more than TOP_K chunks
InitTopK == Started({DOMAIN Corpus})

\* the exception caught and the advisory returned in place of an answer
Raise_swallowed(call, exc) ==
    /\ response' = [status |-> 200, body |-> [answer |-> Advisory, sources |-> <<>>]]
    /\ calls' = calls \o call \o <<[name |-> "raise", exc |-> exc]>>
    /\ pc' = "done"

\* an unhandled exception: FastAPI answers 500 and the handler is over
Raise(call, exc) ==
    /\ response' = ServerError(exc)
    /\ calls' = calls \o call \o <<[name |-> "raise", exc |-> exc]>>
    /\ pc' = "done"

\* POST /api/query with a body {query: q}
QueryArrives ==
    /\ pc = "idle"
    /\ \E q \in Queries : query' = q
    /\ endpoint' = "/api/query"
    /\ pc' = "received"
    /\ UNCHANGED <<served, store, store0,
                   completion, parsed, filters, search_query,
                   where_filter, results, context, answer, response, calls, all_meta>>

\* lines 227-228
RejectBlank ==
    /\ pc = "received"
    /\ Strip(query) = <<>>
    /\ response' = [status |-> 400, detail |-> "Query cannot be empty"]
    /\ pc' = "done"
    /\ UNCHANGED <<served, store, store0,
                   endpoint, completion, query, parsed, filters,
                   search_query, where_filter, results, context, answer, calls,
                   all_meta>>

\* line 230: the model call returns a completion
UnderstandQuery ==
    /\ pc = "received"
    /\ Strip(query) # <<>>
    /\ \E text \in ModelTexts :
          /\ completion' = text
          /\ parsed' = understand_query(query, text)
    /\ calls' = Append(calls, [name |-> "understand_query", arg |-> query])
    /\ pc' = "parsed"
    /\ UNCHANGED <<served, store, store0,
                   endpoint, query, filters, search_query, where_filter,
                   results, context, answer, response, all_meta>>

\* line 230: the model call raises
UnderstandQueryFails ==
    /\ pc = "received"
    /\ Strip(query) # <<>>
    /\ Raise(<<[name |-> "understand_query", arg |-> query]>>, "UpstreamError")
    /\ UNCHANGED <<served, store, store0,
                   endpoint, completion, query, parsed, filters,
                   search_query, where_filter, results, context, answer, all_meta>>

LatestCall(p) ==
    IF NeedsLatest(p)
    THEN <<[name |-> "get_latest_year_for_country", arg |-> p.d["country"]]>>
    ELSE <<>>

\* the lookup made for every country, wants_latest or not
LatestReturn_any_country(p, st) ==
    IF Truthy(Get(p.d, "country"))
    THEN <<[name |-> "get_latest_year_for_country", arg |-> p.d["country"],
            result |-> get_latest_year_for_country(st, p.d["country"])]>>
    ELSE <<>>

\* the lookup of line 146 with what it returned
LatestReturn(p, st) ==
    IF NeedsLatest(p)
    THEN <<[name |-> "get_latest_year_for_country", arg |-> p.d["country"],
            result |-> get_latest_year_for_country(st, p.d["country"])]>>
    ELSE <<>>

\* lines 231-232, the latest-year lookup answering
BuildFilters ==
    /\ pc = "parsed"
    /\ LET r == build_filters(parsed, store)
       IN  IF r.raised
           THEN /\ Raise(<<[name |-> "build_filters"]>>, "AttributeError")
                /\ UNCHANGED <<filters, search_query>>
           ELSE /\ filters' = r.value
                /\ search_query' = GetDefault(parsed.d, "search_query", JText(query))
                /\ calls' = calls \o <<[name |-> "build_filters"]>>
                                  \o LatestReturn(parsed, store)
                /\ pc' = "filtered"
                /\ UNCHANGED response
    /\ UNCHANGED <<served, store, store0,
                   endpoint, completion, query, parsed, where_filter,
                   results, context, answer, all_meta>>

\* line 146: collection.get raises
BuildFiltersFails ==
    /\ pc = "parsed"
    /\ NeedsLatest(parsed)
    /\ Raise(<<[name |-> "build_filters"]>> \o LatestCall(parsed), "UpstreamError")
    /\ UNCHANGED <<served, store, store0,
                   endpoint, completion, query, parsed, filters,
                   search_query, where_filter, results, context, answer, all_meta>>

\* line 163: the embedding service answers; it takes strings only
Embed ==
    /\ pc = "filtered"
    /\ search_query.t \in {"str", "text"}
    /\ calls' = Append(calls, [name |-> "get_embedding", arg |-> search_query])
    /\ pc' = "embedded"
    /\ UNCHANGED <<served, store, store0,
                   endpoint, completion, query, parsed, filters,
                   search_query, where_filter, results, context, answer, response,
                   all_meta>>

\* line 163: the embedding call raises
EmbedFails ==
    /\ pc = "filtered"
    /\ Raise(<<[name |-> "get_embedding", arg |-> search_query]>>, "UpstreamError")
    /\ UNCHANGED <<served, store, store0,
                   endpoint, completion, query, parsed, filters,
                   search_query, where_filter, results, context, answer, all_meta>>

\* line 234: filters if filters else None
FiltersArg(f) == IF TruthyDict(f) THEN f ELSE JNull

\* the nearest-neighbour query sent before the embedding is computed
Query_unembedded ==
    /\ pc = "filtered"
    /\ where_filter' = WhereOf(FiltersArg(filters))
    /\ \E res \in QueryResults(store, where_filter', TOP_K) : results' = res
    /\ calls' = Append(calls, [name |-> "collection.query", where |-> where_filter',
                               n_results |-> TOP_K])
    /\ pc' = "retrieved"
    /\ UNCHANGED <<served, store, store0,
                   endpoint, completion, query, parsed, filters,
                   search_query, context, answer, response, all_meta>>

\* lines 165-186: the nearest-neighbour query answers
Query ==
    /\ pc = "embedded"
    /\ where_filter' = WhereOf(FiltersArg(filters))
    /\ \E res \in QueryResults(store, where_filter', TOP_K) : results' = res
    /\ calls' = Append(calls, [name |-> "collection.query", where |-> where_filter',
                               n_results |-> TOP_K])
    /\ pc' = "retrieved"
    /\ UNCHANGED <<served, store, store0,
                   endpoint, completion, query, parsed, filters,
                   search_query, context, answer, response, all_meta>>

\* lines 180-184: collection.query raises
QueryFails ==
    /\ pc = "embedded"
    /\ where_filter' = WhereOf(FiltersArg(filters))
    /\ Raise(<<[name |-> "collection.query", where |-> where_filter',
                n_results |-> TOP_K]>>, "UpstreamError")
    /\ UNCHANGED <<served, store, store0,
                   endpoint, completion, query, parsed, filters,
                   search_query, results, context, answer, all_meta>>

\* the empty retrieval answered with an error status
NoResults_not_found ==
    /\ pc = "retrieved"
    /\ results.documents = <<>>
    /\ response' = [status |-> 404, detail |-> Advisory]
    /\ pc' = "done"
    /\ UNCHANGED <<served, store, store0,
                   endpoint, completion, query, parsed, filters,
                   search_query, where_filter, results, context, answer, calls,
                   all_meta>>

\* lines 236-242
NoResults ==
    /\ pc = "retrieved"
    /\ results.documents = <<>>
    /\ response' = [status |-> 200,
                    body |-> [answer |-> Advisory, sources |-> <<>>,
                              parsed_query |-> parsed.d, filters |-> filters]]
    /\ pc' = "done"
    /\ UNCHANGED <<served, store, store0,
                   endpoint, completion, query, parsed, filters,
                   search_query, where_filter, results, context, answer, calls,
                   all_meta>>

\* line 244
FormatContext ==
    /\ pc = "retrieved"
    /\ results.documents # <<>>
    /\ LET r == format_context(results)
       IN  IF r.raised
           THEN /\ Raise(<<[name |-> "format_context"]>>, "KeyError")
                /\ UNCHANGED context
           ELSE /\ context' = r.value
                /\ calls' = Append(calls, [name |-> "format_context"])
                /\ pc' = "assembled"
                /\ UNCHANGED response
    /\ UNCHANGED <<served, store, store0,
                   endpoint, completion, query, parsed, filters,
                   search_query, where_filter, results, answer, all_meta>>

\* answer synthesis given the search string in place of the question
GenerateAnswer_search_query ==
    /\ pc = "assembled"
    /\ \E a \in Answers : answer' = a
    /\ calls' = Append(calls, [name |-> "generate_answer", query |-> search_query.v,
                               context |-> context])
    /\ pc' = "generated"
    /\ UNCHANGED <<served, store, store0,
                   endpoint, completion, query, parsed, filters,
                   search_query, where_filter, results, context, response, all_meta>>

\* line 245: the model call returns a completion
GenerateAnswer ==
    /\ pc = "assembled"
    /\ pc' = "generated"
    /\ \E a \in Answers : answer' = a
    /\ calls' = Append(calls, [name |-> "generate_answer", query |-> query,
                               context |-> context])
    /\ UNCHANGED <<served, store, store0,
                   endpoint, completion, query, parsed, filters,
                   search_query, where_filter, results, context, response, all_meta>>

\* line 245: the model call raises
GenerateAnswerFails ==
    /\ pc = "assembled"
    /\ Raise(<<[name |-> "generate_answer", query |-> query, context |-> context]>>,
             "UpstreamError")
    /\ UNCHANGED <<served, store, store0,
                   endpoint, completion, query, parsed, filters,
                   search_query, where_filter, results, context, answer, all_meta>>

\* the response built without its sources
Respond_without_sources ==
    /\ pc = "generated"
    /\ response' = [status |-> 200,
                    body |-> [answer |-> answer, sources |-> <<>>,
                              parsed_query |-> parsed.d, filters |-> filters]]
    /\ pc' = "done"
    /\ UNCHANGED <<served, store, store0,
                   endpoint, completion, query, parsed, filters,
                   search_query, where_filter, results, context, answer, calls,
                   all_meta>>

\* lines 247-262
Respond ==
    /\ pc = "generated"
    /\ LET src == SourcesOf(results)
       IN  response' = IF src.raised THEN ServerError("KeyError")
                       ELSE [status |-> 200,
                             body |-> [answer |-> answer, sources |-> src.value,
                                       parsed_query |-> parsed.d, filters |-> filters]]
    /\ pc' = "done"
    /\ UNCHANGED <<served, store, store0,
                   endpoint, completion, query, parsed, filters,
                   search_query, where_filter, results, context, answer, calls,
                   all_meta>>

\* GET /api/stats
StatsArrives ==
    /\ pc = "idle"
    /\ endpoint' = "/api/stats"
    /\ pc' = "stats"
    /\ UNCHANGED <<served, store, store0,
                   completion, query, parsed, filters, search_query,
                   where_filter, results, context, answer, response, calls, all_meta>>

GetAllCall == [name |-> "collection.get", where |-> JNull, limit |-> JNull,
               offset |-> JNull]

\* the fetch of get_stats deleting the chunks that carry no year
StatsFetch_pruning ==
    /\ pc = "stats"
    /\ all_meta' = [i \in 1..Cardinality(store) |-> Corpus[InOrder(store)[i]].meta]
    /\ store' = {i \in store : "year" \in DOMAIN Corpus[i].meta}
    /\ calls' = Append(calls, GetAllCall)
    /\ pc' = "stats_fetched"
    /\ UNCHANGED <<served, store0,
                   endpoint, completion, query, parsed, filters,
                   search_query, where_filter, results, context, answer, response>>

\* line 266: one collection.get, with no where, limit or offset
StatsFetch ==
    /\ pc = "stats"
    /\ pc' = "stats_fetched"
    /\ all_meta' = [i \in 1..Cardinality(store) |-> Corpus[InOrder(store)[i]].meta]
    /\ calls' = Append(calls, GetAllCall)
    /\ UNCHANGED <<served, store, store0,
                   endpoint, completion, query, parsed, filters,
                   search_query, where_filter, results, context, answer, response>>

\* line 266: collection.get raises
StatsFetchFails ==
    /\ pc = "stats"
    /\ Raise(<<GetAllCall>>, "UpstreamError")
    /\ UNCHANGED <<served, store, store0,
                   endpoint, completion, query, parsed, filters,
                   search_query, where_filter, results, context, answer, all_meta>>

\* lines 268-286, collection.count answering
StatsReturn ==
    /\ pc = "stats_fetched"
    /\ response' = [status |-> 200, body |-> Aggregate(all_meta, Cardinality(store))]
    /\ calls' = Append(calls, [name |-> "collection.count"])
    /\ pc' = "done"
    /\ UNCHANGED <<served, store, store0,
                   endpoint, completion, query, parsed, filters,
                   search_query, where_filter, results, context, answer, all_meta>>

\* line 282: collection.count raises
StatsCountFails ==
    /\ pc = "stats_fetched"
    /\ Raise(<<[name |-> "collection.count"]>>, "UpstreamError")
    /\ UNCHANGED <<served, store, store0,
                   endpoint, completion, query, parsed, filters,
                   search_query, where_filter, results, context, answer, all_meta>>

\* the handler returns and leaves its filter in a module-level cache
Finish_cached ==
    /\ pc = "done"
    /\ pc' = "idle"
    /\ endpoint' = ""
    /\ completion' = JNull
    /\ query' = <<>>
    /\ parsed' = JNull
    /\ search_query' = JNull
    /\ where_filter' = JNull
    /\ results' = JNull
    /\ context' = JNull
    /\ answer' = JNull
    /\ response' = NoResponse
    /\ calls' = <<>>
    /\ all_meta' = JNull
    /\ served' = TRUE
    /\ UNCHANGED <<store, store0, filters>>

\* the response is sent and the handler's locals are gone
Finish ==
    /\ pc = "done"
    /\ pc' = "idle"
    /\ endpoint' = ""
    /\ completion' = JNull
    /\ query' = <<>>
    /\ parsed' = JNull
    /\ filters' = JNull
    /\ search_query' = JNull
    /\ where_filter' = JNull
    /\ results' = JNull
    /\ context' = JNull
    /\ answer' = JNull
    /\ response' = NoResponse
    /\ calls' = <<>>
    /\ all_meta' = JNull
    /\ served' = TRUE
    /\ UNCHANGED <<store, store0>>

Next ==
    \/ QueryArrives
    \/ RejectBlank
    \/ UnderstandQuery
    \/ UnderstandQueryFails
    \/ BuildFilters
    \/ BuildFiltersFails
    \/ Embed
    \/ EmbedFails
    \/ Query
    \/ QueryFails
    \/ NoResults
    \/ FormatContext
    \/ GenerateAnswer
    \/ GenerateAnswerFails
    \/ Respond
    \/ StatsArrives
    \/ StatsFetch
    \/ StatsFetchFails
    \/ StatsReturn
    \/ StatsCountFails
    \/ Finish

Spec == Init /\ [][Next]_vars

SpecTopK == InitTopK /\ [][Next]_vars

(***************************************************************************)
(* What the claims speak of.                                               *)
(***************************************************************************)
\* the request in progress is a query whose filter has been compiled
Compiled == endpoint = "/api/query" /\ filters # JNull

\* the intent gives field k a value (the key is there and is not null)
Given(k) == k \in DOMAIN parsed.d /\ parsed.d[k] # JNull

\* the years the chunks of country c carry
CountryYears(st, c) ==
    {Corpus[i].meta.year :
        i \in {j \in st : Corpus[j].meta.country = c /\ "year" \in DOMAIN Corpus[j].meta}}

SetMax(S) == CHOOSE y \in S : \A z \in S : z <= y

\* the filter bounds the year to exactly y
YearIs(y) == Get(filters, "year_min") = y /\ Get(filters, "year_max") = y

\* the intent asks for the latest document of a country
AsksLatest ==
    /\ Given("country")
    /\ parsed.d["country"].t = "str"
    /\ Get(parsed.d, "wants_latest") = JBool(TRUE)

(***************************************************************************)
(* C1.  For every parsed intent with an explicit year y, whatever its      *)
(* country, wants_latest, year_min and year_max and whatever the store     *)
(* holds, build_filters returns a filter with year_min = year_max = y.     *)
(* Fails for y = 0: line 151 tests the year's truthiness, so a year of 0   *)
(* is taken for no year.                                                   *)
(***************************************************************************)
C1_ExplicitYearWins ==
    (Compiled /\ Given("year")) => YearIs(parsed.d["year"])

IsQuery == endpoint = "/api/query"

\* the steps of the request named n
CallsOf(n) == {i \in DOMAIN calls : calls[i].name = n}

Called(n) == CallsOf(n) # {}

\* the text is empty or only whitespace
IsBlank(q) == \A i \in DOMAIN q : q[i] \in {" ", "\t"}

FilterFields == {"country", "year_min", "year_max"}

\* the fields the compiled filter sets
SetFields == (DOMAIN filters) \cap FilterFields

(***************************************************************************)
(* C3.  Whatever the intent-parsing model returns, a text that is no JSON  *)
(* or JSON of an unexpected shape, the query recovers: it goes on with the *)
(* raw question as the search string and no filters.                       *)
(* Fails for JSON that is no object: line 137 catches JSONDecodeError      *)
(* only, and parsed.get in build_filters raises AttributeError.            *)
(***************************************************************************)
C3_MalformedIntentRecovered ==
    (/\ IsQuery
     /\ completion # JNull
     /\ (~completion.valid \/ completion.doc.kind # "dict")
     /\ pc # "parsed")
    => (filters = EmptyDict /\ search_query = JText(query))

(***************************************************************************)
(* C4.  When the model's output is no JSON, understand_query returns an    *)
(* intent whose search_query is the original question, with country,       *)
(* year, year_min, year_max unset and wants_latest false; build_filters    *)
(* then returns the empty filter, and the question as it came is embedded  *)
(* and searched with no predicate.                                         *)
(***************************************************************************)
C4_NonJsonFallback ==
    (IsQuery /\ completion # JNull /\ ~completion.valid)
    => /\ parsed.kind = "dict"
       /\ Get(parsed.d, "search_query") = JText(query)
       /\ \A k \in {"country", "year", "year_min", "year_max", "wants_latest"} :
             k \notin DOMAIN parsed.d
       /\ pc # "parsed" => (filters = EmptyDict /\ search_query = JText(query))
       /\ \A i \in CallsOf("get_embedding") : calls[i].arg = JText(query)
       /\ \A i \in CallsOf("collection.query") : calls[i].where = JNull
       /\ pc = "done" /\ response.status = 500 => response.error # "AttributeError"

\* an unparseable completion, and the unfiltered search has returned chunks
C4_Witness ==
    /\ IsQuery
    /\ completion # JNull
    /\ ~completion.valid
    /\ pc = "retrieved"
    /\ query = <<" ", "w", " ">>
    /\ Len(results.documents) = 2

(***************************************************************************)
(* C5.  When the nearest-neighbour query returns no chunk, the query ends  *)
(* in a 200 with the advisory text, no sources, the parsed intent and the  *)
(* compiled filter, and neither format_context nor generate_answer runs.   *)
(***************************************************************************)
C5_EmptyRetrieval ==
    (IsQuery /\ results # JNull /\ results.documents = <<>>)
    => /\ ~Called("format_context")
       /\ ~Called("generate_answer")
       /\ pc \in {"retrieved", "done"}
       /\ pc = "done" =>
             response = [status |-> 200,
                         body |-> [answer |-> Advisory, sources |-> <<>>,
                                   parsed_query |-> parsed.d, filters |-> filters]]

\* a filtered search found nothing and the advisory response is out
C5_Witness ==
    /\ IsQuery
    /\ pc = "done"
    /\ results # JNull
    /\ results.documents = <<>>
    /\ store # {}
    /\ response.status = 200
    /\ response.body.answer = Advisory

(***************************************************************************)
(* C6.  A query that is empty or only whitespace ends in a 400, and no     *)
(* step of the pipeline runs for it: no model call, no metadata lookup, no *)
(* embedding call, no nearest-neighbour query.                             *)
(***************************************************************************)
C6_BlankRejected ==
    (IsQuery /\ IsBlank(query))
    => /\ calls = <<>>
       /\ pc \in {"received", "done"}
       /\ pc = "done" => response.status = 400

\* a query of whitespace alone has been rejected
C6_Witness ==
    /\ IsQuery
    /\ query = <<"\t", " ">>
    /\ pc = "done"
    /\ response.status = 400

(***************************************************************************)
(* C7.  For a filter that sets none of country, year_min, year_max, a      *)
(* missing filter included, retrieve queries the collection with no        *)
(* predicate: an unfiltered top-K search.                                  *)
(***************************************************************************)
C7_NoFieldsNoPredicate ==
    /\ WhereOf(JNull) = JNull
    /\ WhereOf(EmptyDict) = JNull
    /\ (IsQuery /\ filters # JNull /\ SetFields = {})
       => \A i \in CallsOf("collection.query") :
             calls[i].where = JNull /\ calls[i].n_results = TOP_K

\* an empty filter, and the search returned both chunks of the store
C7_Witness ==
    /\ IsQuery
    /\ pc = "retrieved"
    /\ filters = EmptyDict
    /\ where_filter = JNull
    /\ Len(results.documents) = 2

(***************************************************************************)
(* C8.  For a filter that sets n >= 2 of country, year_min, year_max, the  *)
(* predicate passed to the collection is an $and of exactly n conditions,  *)
(* one per set field: country = X, year >= year_min, year <= year_max.     *)
(* With one field set the predicate is that one condition itself.          *)
(***************************************************************************)
ConditionFor(k) ==
    CASE k = "country"  -> [op |-> "$eq", key |-> "country", value |-> filters[k]]
      [] k = "year_min" -> [op |-> "$gte", key |-> "year", value |-> filters[k]]
      [] k = "year_max" -> [op |-> "$lte", key |-> "year", value |-> filters[k]]

PredicateAsClaimed(w) ==
    /\ Cardinality(SetFields) >= 2 =>
          /\ w # JNull
          /\ w.op = "$and"
          /\ Len(w.conds) = Cardinality(SetFields)
          /\ \A k \in SetFields : \E i \in DOMAIN w.conds : w.conds[i] = ConditionFor(k)
    /\ Cardinality(SetFields) = 1 =>
          \A k \in SetFields : w = ConditionFor(k)

C8_Conjunction ==
    (IsQuery /\ filters # JNull)
    => \A i \in CallsOf("collection.query") : PredicateAsClaimed(calls[i].where)

\* a filter of all three fields went out as a conjunction and found a chunk
C8_Witness ==
    /\ IsQuery
    /\ pc = "retrieved"
    /\ SetFields = FilterFields
    /\ where_filter.op = "$and"
    /\ Len(where_filter.conds) = 3
    /\ results.documents # <<>>

(***************************************************************************)
(* C9.  For a retrieval that found chunks, the N-th block of the context   *)
(* (rank N, counted from 1, in retrieval order) describes the chunk the    *)
(* N-th entry of sources does, and there are as many blocks as sources.    *)
(***************************************************************************)
SameChunk(block, source, doc, meta) ==
    /\ block.country = source.country /\ source.country = meta.country
    /\ block.year = source.year /\ source.year = meta.year
    /\ block.doc_name = source.doc_name /\ source.doc_name = meta.doc_name
    /\ block.page = source.page /\ source.page = meta.page
    /\ block.doc = doc

C9_ContextAlignsWithSources ==
    (/\ IsQuery
     /\ pc = "done"
     /\ response.status = 200
     /\ results # JNull
     /\ results.documents # <<>>)
    => /\ Len(context) = Len(response.body.sources)
       /\ \A n \in DOMAIN response.body.sources :
             /\ context[n].rank = n
             /\ SameChunk(context[n], response.body.sources[n],
                          results.documents[n], results.metadatas[n])

\* an answer with two different sources
C9_Witness ==
    /\ IsQuery
    /\ pc = "done"
    /\ response.status = 200
    /\ Called("generate_answer")
    /\ Len(context) = 2
    /\ Len(response.body.sources) = 2
    /\ response.body.sources[1] # response.body.sources[2]

(***************************************************************************)
(* C10.  get_stats reads the metadata in limit/offset fetches of at most   *)
(* 5000 records each and never issues a fetch without a limit.             *)
(* Fails: line 266 is one collection.get with no limit and no offset.      *)
(***************************************************************************)
C10_StatsFetchesAreBounded ==
    endpoint = "/api/stats"
    => \A i \in CallsOf("collection.get") :
          calls[i].limit.t = "int" /\ calls[i].limit.v <= 5000

(***************************************************************************)
(* What the claims about get_stats and the lookup speak of.                *)
(***************************************************************************)
\* get_stats has returned its body
StatsDone == endpoint = "/api/stats" /\ pc = "done" /\ response.status = 200

\* the distinct countries of the chunks of st
StoreCountries(st) == {Corpus[i].meta.country : i \in st}

\* the years the chunks of st carry, 0 among them
StoreYears(st) == {Corpus[i].meta.year : i \in {j \in st : "year" \in DOMAIN Corpus[j].meta}}

SetMin(S) == CHOOSE y \in S : \A z \in S : y <= z

\* l lists the names of S once each, in alphabetical order
ListsSorted(l, S) ==
    /\ Len(l) = Cardinality(S)
    /\ {l[i] : i \in DOMAIN l} = S
    /\ \A i, j \in DOMAIN l : i < j => CountryRank(l[i]) < CountryRank(l[j])

\* the year_range over the years Y: null when there is none
RangeOver(Y) == IF Y = {} THEN JNull ELSE JList(<<SetMin(Y), SetMax(Y)>>)

C12_SearchStringPopulated ==
    \A i \in CallsOf("get_embedding") :
        /\ calls[i].arg.t \in {"str", "text"}
        /\ calls[i].arg = IF Given("search_query") THEN parsed.d["search_query"]
                          ELSE JText(query)

(***************************************************************************)
(* What the claims about the order and the failure of the steps speak of.  *)
(***************************************************************************)
\* the external services a query calls
ExternalCalls ==
    {"understand_query", "get_latest_year_for_country", "get_embedding",
     "collection.query", "generate_answer"}

\* the step at position i of the request raised
RaisedAt(i) == i + 1 \in CallsOf("raise")

(***************************************************************************)
(* C13.  On the query path, when a call to an external service (intent     *)
(* model, latest-year lookup, embedding, nearest-neighbour query, answer   *)
(* synthesis) fails, the request ends in a server-side failure: the        *)
(* response is a 500 that carries no body and no answer, and no step       *)
(* follows the failed call.                                                *)
(***************************************************************************)
C13_FailureEndsRequest ==
    IsQuery =>
        \A i \in DOMAIN calls :
            (calls[i].name \in ExternalCalls /\ RaisedAt(i)) =>
                /\ pc = "done"
                /\ response.status = 500
                /\ DOMAIN response = {"status", "error"}
                /\ Len(calls) = i + 1

\* answer synthesis has failed after intent parsing, embedding and retrieval
C13_Witness ==
    /\ IsQuery
    /\ Called("collection.query")
    /\ \E i \in CallsOf("generate_answer") : RaisedAt(i)
    /\ response.status = 500

\* the intent is a dict that asks for the latest document of a country and
\* names no year and no range
LatestOnly ==
    /\ parsed.kind = "dict"
    /\ AsksLatest
    /\ ~Given("year") /\ ~Given("year_min") /\ ~Given("year_max")

\* build_filters has been entered and its lookup, if made, has answered
FiltersAttempted ==
    /\ IsQuery
    /\ Called("build_filters")
    /\ \A i \in CallsOf("get_latest_year_for_country") : ~RaisedAt(i)

(***************************************************************************)
(* C14.  For every intent with country c and wants_latest set and no year  *)
(* and no range, over a store with no chunk of country c that carries a    *)
(* year: build_filters raises nothing and returns exactly {country: c};    *)
(* the nearest-neighbour query, once made, carries the predicate country   *)
(* = c; and when no chunk has country c at all the retrieval is empty and  *)
(* the response is the no-results advisory with empty sources.             *)
(***************************************************************************)
C14_LatestWithoutYear ==
    (/\ FiltersAttempted
     /\ LatestOnly
     /\ CountryYears(store, parsed.d["country"].v) = {})
    => /\ \A i \in CallsOf("build_filters") : ~RaisedAt(i)
       /\ filters # JNull
       /\ DOMAIN filters = {"country"}
       /\ Get(filters, "country") = parsed.d["country"]
       /\ \A i \in CallsOf("collection.query") :
             calls[i].where = [op |-> "$eq", key |-> "country",
                               value |-> parsed.d["country"]]
       /\ (parsed.d["country"].v \notin StoreCountries(store)) =>
             /\ results # JNull => results.documents = <<>>
             /\ (pc = "done" /\ ~Called("raise")) =>
                   /\ response.status = 200
                   /\ response.body.answer = Advisory
                   /\ response.body.sources = <<>>

\* the latest document of a country the store has no chunk of was asked for,
\* over a store that is not empty, and the advisory has been returned
C14_Witness ==
    /\ FiltersAttempted
    /\ LatestOnly
    /\ parsed.d["country"].v \notin StoreCountries(store)
    /\ store # {}
    /\ pc = "done"
    /\ response.status = 200
    /\ response.body.sources = <<>>

(***************************************************************************)
(* C15.  For every intent with no explicit year and wants_latest not set,  *)
(* build_filters copies year_min and year_max unchanged: each bound is in  *)
(* the filter with the intent's value when the intent sets it and absent   *)
(* otherwise; and with a country and both bounds set the predicate of the  *)
(* nearest-neighbour query is the conjunction of three conditions.         *)
(* Fails for a bound of 0: lines 154-157 test the bounds' truthiness, as   *)
(* line 151 tests the year's (C1), so a bound of 0 is left out.            *)
(***************************************************************************)
C15_RangeCopied ==
    (/\ Compiled
     /\ ~Given("year")
     /\ ~Given("wants_latest"))
    => /\ \A k \in {"year_min", "year_max"} :
             IF Given(k) THEN Get(filters, k) = parsed.d[k]
             ELSE k \notin DOMAIN filters
       /\ (Given("country") /\ Given("year_min") /\ Given("year_max")) =>
             \A i \in CallsOf("collection.query") :
                 /\ calls[i].where # JNull
                 /\ calls[i].where.op = "$and"
                 /\ Len(calls[i].where.conds) = 3
                 /\ {calls[i].where.conds[j] : j \in 1..3} =
                        {[op |-> "$eq", key |-> "country", value |-> parsed.d["country"]],
                         [op |-> "$gte", key |-> "year", value |-> parsed.d["year_min"]],
                         [op |-> "$lte", key |-> "year", value |-> parsed.d["year_max"]]}

\* the place of a step in the pipeline of lines 230-247
StepRank(n) ==
    CASE n = "understand_query"            -> 1
      [] n = "build_filters"               -> 2
      [] n = "get_latest_year_for_country" -> 3
      [] n = "get_embedding"               -> 4
      [] n = "collection.query"            -> 5
      [] n = "format_context"              -> 6
      [] n = "generate_answer"             -> 7
      [] OTHER                             -> 8

\* step n has run and has returned
Returned(n) == \E i \in CallsOf(n) : ~RaisedAt(i)

(***************************************************************************)
(* C16.  Within one query the steps run in a fixed order and never         *)
(* overlap: a step starts only when every step before it has returned, and *)
(* intent parsing comes before filter compilation, the latest-year lookup  *)
(* (when made) before the embedding, the embedding before the              *)
(* nearest-neighbour query, and that query before answer synthesis.        *)
(***************************************************************************)
C16_FixedOrder ==
    IsQuery =>
        /\ \A i, j \in DOMAIN calls :
              i < j => StepRank(calls[i].name) < StepRank(calls[j].name)
        /\ \A i, j \in DOMAIN calls :
              (i < j /\ calls[j].name # "raise") => ~RaisedAt(i)
        /\ Called("build_filters") => Returned("understand_query")
        /\ Called("get_embedding") => Returned("build_filters")
        /\ Called("collection.query") => Returned("get_embedding")
        /\ Called("generate_answer") => Returned("collection.query")

\* a query has run all of its steps, the latest-year lookup among them
C16_Witness ==
    /\ IsQuery
    /\ Returned("get_latest_year_for_country")
    /\ Returned("generate_answer")
    /\ Len(calls) = 7

(***************************************************************************)
(* C17.  Within one query no external call is repeated: every request past *)
(* the blank check makes exactly one intent-parsing call, and at most one  *)
(* latest-year lookup (only when the intent has both country and           *)
(* wants_latest), one embedding call, one nearest-neighbour query and one  *)
(* answer-synthesis call; the generative model is called at most twice;    *)
(* and a call that failed is not made again.                               *)
(***************************************************************************)
C17_NoCallRepeated ==
    IsQuery =>
        /\ \A n \in ExternalCalls : Cardinality(CallsOf(n)) <= 1
        /\ (pc \notin {"idle", "received"} /\ ~IsBlank(query)) =>
              Cardinality(CallsOf("understand_query")) = 1
        /\ Called("get_latest_year_for_country") =>
              /\ parsed.kind = "dict"
              /\ AsksLatest
        /\ Cardinality(CallsOf("understand_query") \cup CallsOf("generate_answer")) <= 2
        /\ \A i, j \in DOMAIN calls :
              (i < j /\ RaisedAt(i)) => calls[j].name # calls[i].name

\* a finished query has called the generative model twice and made the
\* lookup, the embedding and the nearest-neighbour query once each
C17_Witness ==
    /\ IsQuery
    /\ pc = "done"
    /\ response.status = 200
    /\ \A n \in ExternalCalls : Cardinality(CallsOf(n)) = 1

(***************************************************************************)
(* C18.  Every nearest-neighbour query of the endpoint asks for exactly 10 *)
(* results, so the retrieval holds at most 10 chunks and the sources of a  *)
(* response are at most 10, however many chunks match.                     *)
(***************************************************************************)
C18_TopK ==
    IsQuery =>
        /\ \A i \in CallsOf("collection.query") : calls[i].n_results = 10
        /\ results # JNull => Len(results.metadatas) <= 10
        /\ (pc = "done" /\ response.status = 200) => Len(response.body.sources) <= 10

\* more than 10 chunks matched and the response lists 10 sources
C18_Witness ==
    /\ IsQuery
    /\ pc = "done"
    /\ response.status = 200
    /\ Cardinality(Matching(store, where_filter)) > 10
    /\ Len(response.body.sources) = 10

Lookups == {i \in CallsOf("get_latest_year_for_country") : "result" \in DOMAIN calls[i]}

\* the result of a lookup over the years Y: none when there is no year
LatestOver(Y) == IF Y = {} THEN JNull ELSE JInt(SetMax(Y))

C21_YearlessChunkRendered ==
    (/\ IsQuery
     /\ pc = "done"
     /\ results # JNull
     /\ Len(results.documents) > 0
     /\ \A i \in CallsOf("generate_answer") : ~RaisedAt(i))
    => /\ response.status = 200
       /\ Len(response.body.sources) = Len(results.metadatas)
       /\ Len(context) = Len(results.documents)

(***************************************************************************)
(* C22.  In every query that reaches answer synthesis the embedding        *)
(* service was given the intent's search_query (the question itself when   *)
(* the intent has none), the answer synthesizer is given the original      *)
(* question, not the search_query, together with the assembled context,    *)
(* and the response carries the synthesizer's output as its answer, the    *)
(* parsed intent as parsed_query and the compiled filter as filters.       *)
(***************************************************************************)
C22_QuestionAndSearchString ==
    (IsQuery /\ Called("generate_answer")) =>
        /\ \A i \in CallsOf("get_embedding") :
              calls[i].arg = IF Given("search_query") THEN parsed.d["search_query"]
                             ELSE JText(query)
        /\ \A i \in CallsOf("generate_answer") :
              /\ calls[i].query = query
              /\ calls[i].context = context
        /\ (pc = "done" /\ response.status = 200) =>
              /\ response.body.answer = answer
              /\ response.body.answer \in Answers
              /\ response.body.parsed_query = parsed.d
              /\ response.body.filters = filters

\* an answered query whose search_query differs from the question
C22_Witness ==
    /\ IsQuery
    /\ pc = "done"
    /\ response.status = 200
    /\ Returned("generate_answer")
    /\ Given("search_query")
    /\ parsed.d["search_query"] # JText(query)
    /\ Given("country")

\* the predicate w constrains the country to the value v
ConstrainsCountry(w, v) ==
    /\ w # JNull
    /\ IF w.op = "$and"
       THEN \E j \in DOMAIN w.conds :
               w.conds[j] = [op |-> "$eq", key |-> "country", value |-> v]
       ELSE w = [op |-> "$eq", key |-> "country", value |-> v]

Contents(st) == [i \in st |-> Corpus[i]]

(***************************************************************************)
(* C24.  No step of a query or of a stats request, a rejected, a failed    *)
(* and a no-results request included, changes the collection: across every *)
(* step the set of chunks, and the text and metadata of every chunk, stay  *)
(* what they were, so that they are those of startup after any sequence of *)
(* requests.                                                               *)
(***************************************************************************)
C24_StoreUnchanged ==
    [][Contents(store') = Contents(store) /\ Contents(store') = Contents(store0)]_vars

\* a request has failed after an earlier request ended, over a collection
\* that holds chunks
C24_Witness ==
    /\ served
    /\ pc = "done"
    /\ response.status = 500
    /\ store # {}
    /\ store = store0

\* a query has ended with a QueryResponse
Answered200 == IsQuery /\ pc = "done" /\ response.status = 200

(***************************************************************************)
(* C25.  Every entry of the sources of every QueryResponse satisfies the   *)
(* filter returned in the same response: its country is filters.country    *)
(* when that is set, its year is at least filters.year_min when that is    *)
(* set and at most filters.year_max when that is set.                      *)
(***************************************************************************)
C25_SourcesSatisfyFilter ==
    Answered200 =>
        \A i \in DOMAIN response.body.sources :
            LET src == response.body.sources[i]
                f == response.body.filters
            IN  /\ "country" \in DOMAIN f => src.country = f["country"].v
                /\ "year_min" \in DOMAIN f => src.year >= f["year_min"].v
                /\ "year_max" \in DOMAIN f => src.year <= f["year_max"].v

\* a response lists a source under a filter of country and both year bounds,
\* over a store with a chunk the filter excludes
C25_Witness ==
    /\ Answered200
    /\ Len(response.body.sources) > 0
    /\ {"country", "year_min", "year_max"} \subseteq DOMAIN response.body.filters
    /\ Cardinality(store) > Len(response.body.sources)

\* the latest year the lookup resolves for the intent's country: the largest
\* year other than 0 of its chunks
Resolvable == CountryYears(store, parsed.d["country"].v) \ {0} # {}

LatestYear == JInt(SetMax(CountryYears(store, parsed.d["country"].v) \ {0}))

(***************************************************************************)
(* C26.  For every intent with country and wants_latest set, no explicit   *)
(* year, and a resolvable latest year L, each range bound the intent       *)
(* supplies replaces L for that bound only: year_min is the intent's       *)
(* year_min when it gives one and L otherwise, and year_max is the         *)
(* intent's year_max when it gives one and L otherwise.                    *)
(* Fails for a bound of 0: lines 154-157 test the bounds' truthiness, as   *)
(* line 151 tests the year's (C1), so a bound of 0 replaces nothing.       *)
(***************************************************************************)
C26_BoundReplacesLatest ==
    (/\ Compiled
     /\ AsksLatest
     /\ ~Given("year")
     /\ Resolvable)
    => /\ Get(filters, "year_min") =
             IF Given("year_min") THEN parsed.d["year_min"] ELSE LatestYear
       /\ Get(filters, "year_max") =
             IF Given("year_max") THEN parsed.d["year_max"] ELSE LatestYear

\* the four ways a query ends
EndsRejected == response.status = 400 /\ IsBlank(query) /\ Len(calls) = 0

EndsNoResults ==
    /\ response.status = 200
    /\ response.body.answer = Advisory
    /\ Len(response.body.sources) = 0
    /\ Returned("collection.query")
    /\ ~Called("generate_answer")

EndsAnswered ==
    /\ response.status = 200
    /\ response.body.answer \in Answers
    /\ Len(response.body.sources) >= 1
    /\ Returned("generate_answer")

EndsFailed == response.status = 500 /\ DOMAIN response = {"status", "error"}

\* exactly one of the four
OneOutcome ==
    Cardinality({o \in {"rejected", "no-results", "answered", "failed"} :
                    CASE o = "rejected"   -> EndsRejected
                      [] o = "no-results" -> EndsNoResults
                      [] o = "answered"   -> EndsAnswered
                      [] o = "failed"     -> EndsFailed}) = 1

\* how far a request has come
PcRank(p) ==
    CASE p = "idle"      -> 0
      [] p = "received"  -> 1
      [] p = "parsed"    -> 2
      [] p = "filtered"  -> 3
      [] p = "embedded"  -> 4
      [] p = "retrieved" -> 5
      [] p = "assembled" -> 6
      [] p = "generated" -> 7
      [] OTHER           -> 8

(***************************************************************************)
(* C27.  Every query that has ended has ended in exactly one of four ways: *)
(* the 400 of a blank query, the fixed no-results response, an answered    *)
(* QueryResponse with at least one source, or a server-side failure.  And  *)
(* every query ends once each of its external calls has returned or        *)
(* failed: every step takes the request strictly forward through the       *)
(* pipeline, whose last place is the end of the request, so that there is  *)
(* no loop, and no step is a step of another request.                      *)
(***************************************************************************)
C27_FourOutcomes ==
    /\ []((IsQuery /\ pc = "done") => OneOutcome)
    /\ [][(IsQuery /\ pc # "done") =>
            (IsQuery' /\ PcRank(pc') > PcRank(pc) /\ PcRank(pc') <= PcRank("done"))]_vars

\* a query has ended in the no-results response after an earlier request
C27_Witness ==
    /\ IsQuery
    /\ pc = "done"
    /\ EndsNoResults
    /\ served

\* the intent gives an inverted range and no year
InvertedRange ==
    /\ Compiled
    /\ ~Given("year")
    /\ Given("year_min")
    /\ Given("year_max")
    /\ parsed.d["year_min"].v > parsed.d["year_max"].v

(***************************************************************************)
(* C28.  For every intent with year_min > year_max and no explicit year,   *)
(* build_filters neither validates nor reorders the bounds: the filter     *)
(* carries both as given, the conjunction year >= year_min and year <=     *)
(* year_max matches no chunk, and the query, its external calls not        *)
(* failing, ends in the no-results response, not in an error.              *)
(* Fails for year_max = 0: lines 154-157 test the bounds' truthiness, as   *)
(* line 151 tests the year's (C1), so the upper bound is left out and the  *)
(* lower bound alone matches chunks.                                       *)
(***************************************************************************)
C28_InvertedRangeNoResults ==
    InvertedRange =>
        /\ Get(filters, "year_min") = parsed.d["year_min"]
        /\ Get(filters, "year_max") = parsed.d["year_max"]
        /\ results # JNull => Len(results.documents) = 0
        /\ (pc = "done" /\ ~Called("raise")) =>
              /\ response.status = 200
              /\ response.body.answer = Advisory
              /\ Len(response.body.sources) = 0
====
